---- MODULE Spec2Model ----
(***************************************************************************)
(* DeleteEntityDialog (src/collection/internal/DeleteEntityDialog.tsx) and *)
(* the entity lifecycle it drives: one delete operation per target, run    *)
(* through the schema's hooks (EntitySchema.onPreDelete / onDelete) and    *)
(* the store, then aggregated by the dialog's completion handlers.         *)
(*                                                                         *)
(* deleteEntity (models/firestore) is imported by the dialog but its body  *)
(* is not part of the sources at hand; its steps are written from the      *)
(* delete sequence of the specification (section 4.2).                     *)
(***************************************************************************)
EXTENDS Integers, Sequences, FiniteSets, Bags, TLC

\* Number of entities of the collection shown to the user, and the length
\* of the longest selection handed to the dialog.
NumEnt == 3

Ents == 1..NumEnt

---------------------------------------------------------------------------
(* Values of the entityOrEntitiesToDelete prop: undefined, one entity, or  *)
(* an array of entities.                                                   *)

Undef == [kind |-> "undef", ents |-> <<>>]
One(e) == [kind |-> "one", ents |-> <<e>>]
Arr(s) == [kind |-> "arr", ents |-> s]

Asc(n) == [i \in 1..n |-> i]
Desc(n) == [i \in 1..n |-> n + 1 - i]

\* The targets a parent hands to the dialog: nothing, either of two
\* entities, an empty selection, a selection of one, a selection of all
\* (listed last to first).
PropValues ==
    {Undef, One(1), One(NumEnt), Arr(Asc(0)), Arr(Asc(1)), Arr(Desc(NumEnt))}

\* JavaScript truthiness of the prop: objects and arrays (also []) are truthy.
Defined(v) == v.kind # "undef"
IsArray(v) == v.kind = "arr"

\* As Normalize, with an array of one entity kept as an array.
NormalizeKeepsArray(t) == t

\* Array.isArray(x) && x.length === 1 ? x[0] : x
Normalize(t) ==
    IF IsArray(t) /\ Len(t.ents) = 1 THEN One(t.ents[1]) ELSE t

\* useState<boolean>() starts undefined; the three values of the state.
BoolStr(b) == IF b THEN "true" ELSE "false"
Truthy(m) == m = "true"

---------------------------------------------------------------------------
VARIABLES
    entityOrEntitiesToDelete, \* prop
    lastSupplied,             \* the latest value of the prop that was not empty
    onEntityDelete,           \* prop: is the callback supplied
    onMultipleEntitiesDelete, \* prop: is the callback supplied
    loading,                  \* useState(false)
    entityOrEntitiesRef,      \* useRef: .current
    multipleEntities,         \* useState<boolean>()
    entityOrEntities,         \* ref.current as read by the committed render
    renderMultiple,           \* multipleEntities as read by the committed render
    mode,                     \* which completion handler is pending
    okTarget,                 \* entityOrEntities captured by the handleOk that ran
    ops,                      \* the delete operations launched by handleOk
    notes,                    \* snackbarContext.open calls since the confirmation
    entityDeleteCalls,        \* onEntityDelete calls since the confirmation
    multipleDeleteCalls,      \* onMultipleEntitiesDelete calls since the confirmation
    closeCalls,               \* onClose calls of the completion handlers since then
    dismissed,                \* onClose called by Cancel / backdrop since then
    save                      \* the save operation of the executor, if one runs

vars == <<entityOrEntitiesToDelete, lastSupplied, onEntityDelete, onMultipleEntitiesDelete,
          loading, entityOrEntitiesRef, multipleEntities, entityOrEntities,
          renderMultiple, mode, okTarget, ops, notes, entityDeleteCalls,
          multipleDeleteCalls, closeCalls, dismissed, save>>

cbVars == <<onEntityDelete, onMultipleEntitiesDelete>>
renderVars == <<entityOrEntitiesRef, multipleEntities, entityOrEntities, renderMultiple>>
logVars == <<notes, entityDeleteCalls, multipleDeleteCalls, closeCalls, dismissed>>

---------------------------------------------------------------------------
(* React: a render reads ref.current and the state; the effect runs after  *)
(* the commit when its dependency changed, and a setState to a different   *)
(* value renders again.  A setState to the same value bails out, so the    *)
(* committed closures keep what the earlier render read.                   *)

\* As Commit, with the flag taken from the prop itself rather than from the
\* target kept in the ref.
CommitFlagFromProp(t, runEffect, refv, multi) ==
    IF runEffect /\ Defined(t)
    THEN LET r == Normalize(t)
             m == BoolStr(IsArray(t))
         IN  [ref |-> r,
              multipleEntities |-> m,
              entityOrEntities |-> IF m # multi THEN r ELSE refv,
              renderMultiple |-> m]
    ELSE [ref |-> refv,
          multipleEntities |-> multi,
          entityOrEntities |-> refv,
          renderMultiple |-> multi]

Commit(t, runEffect, refv, multi) ==
    IF runEffect /\ Defined(t)
    THEN LET r == Normalize(t)
             m == BoolStr(IsArray(r))
         IN  [ref |-> r,
              multipleEntities |-> m,
              entityOrEntities |-> IF m # multi THEN r ELSE refv,
              renderMultiple |-> m]
    ELSE [ref |-> refv,
          multipleEntities |-> multi,
          entityOrEntities |-> refv,
          renderMultiple |-> multi]

\* The component function run again by a state change of its own.
ReRender ==
    /\ entityOrEntities' = entityOrEntitiesRef
    /\ renderMultiple' = multipleEntities
    /\ UNCHANGED <<entityOrEntitiesRef, multipleEntities>>

---------------------------------------------------------------------------
(* Errors raised by the collaborators (e.message).                         *)

PreDeleteError == "pre-delete hook error"
StoreError == "store error"
PostDeleteError == "post-delete hook error"

\* What invoking an optional hook of the schema can do: return (as a
\* schema without the hook lets the operation go on) or raise.
HookResults == {"returned", "raised"}

Note(type, title, message) == [type |-> type, title |-> title, message |-> message]
Opened(note) == SetToBag({note})

---------------------------------------------------------------------------
(* The callbacks the dialog hands to deleteEntity: the snackbarContext.open *)
(* calls each of them makes.                                               *)

\* console.debug only
onDeleteSuccess(entity) == EmptyBag

\* As onDeleteFailure, with the store's message left out of the notification.
onDeleteFailureNoMessage(entity, e) == Opened(Note("error", "Error deleting", ""))

onDeleteFailure(entity, e) == Opened(Note("error", "Error deleting", e))

\* As onPreDeleteHookError, logging the error without opening the snackbar.
onPreDeleteHookErrorLogOnly(entity, e) == EmptyBag

onPreDeleteHookError(entity, e) == Opened(Note("error", "Error before deleting", e))

onDeleteSuccessHookError(entity, e) ==
    Opened(Note("error", "Error after deleting (entity is deleted)", e))

\* callback && callback(...)
Call(op, name, opened) == IF name \in op.cb THEN opened ELSE EmptyBag

\* The promise of the operation resolves with b.
Resolve(op, b) == [op EXCEPT !.pc = "done", !.result = b, !.settled = @ + 1]

---------------------------------------------------------------------------
(* deleteEntity (specification 4.2, delete operation).  onPreDelete and    *)
(* onDelete return void: they run to completion where they are invoked,    *)
(* and the store call is the operation's one suspension point.  The store  *)
(* is an external collaborator: it answers a delete with success or with   *)
(* a failure.                                                              *)

\* An operation records what its collaborators did (pre, store, post: the
\* two hooks and the store's answer), the calls it made (storeCalls,
\* onDeleteCalls) and what it yields (settled, result, error, hookError).
\* The operation as deleteEntity leaves it when it returns its promise:
\* 1. onPreDelete, if present, has run; raising aborts the delete,
\* 2. otherwise the store delete has been called and is in flight.
deleteEntity(entity, callbacks, pre) ==
    LET op == [ent |-> entity, cb |-> callbacks, pc |-> "store",
               pre |-> pre, store |-> "none", post |-> "none",
               storeCalls |-> 0, onDeleteCalls |-> 0,
               settled |-> 0, result |-> FALSE,
               error |-> "none", hookError |-> "none"]
    IN  IF pre = "raised"
        THEN Resolve([op EXCEPT !.error = PreDeleteError], FALSE)
        ELSE [op EXCEPT !.store = "pending", !.storeCalls = 1]

\* The snackbar calls made while deleteEntity runs its synchronous part.
deleteEntityOpened(entity, callbacks, pre) ==
    IF pre = "raised" /\ "onPreDeleteHookError" \in callbacks
    THEN onPreDeleteHookError(entity, PreDeleteError)
    ELSE EmptyBag

DialogCallbacks ==
    {"onDeleteSuccess", "onDeleteFailure", "onPreDeleteHookError",
     "onDeleteSuccessHookError"}

\* As performDelete, without handing onDeleteFailure to deleteEntity.
performDeleteNoFailureCallback(entity, pre) ==
    deleteEntity(entity, DialogCallbacks \ {"onDeleteFailure"}, pre)

performDelete(entity, pre) == deleteEntity(entity, DialogCallbacks, pre)

\* As LaunchAll, but one target after the other, giving up at the first
\* whose onPreDelete raises: the targets after it are never attempted.
LaunchUntilFailure(ents, pre) ==
    [i \in DOMAIN pre |->
        IF \E j \in 1..(i - 1) : pre[j] = "raised"
        THEN [performDelete(ents[i], "raised") EXCEPT !.pre = pre[i],
                                                     !.error = "none"]
        ELSE performDelete(ents[i], pre[i])]

\* entities.map(performDelete) / performDelete(entity): one operation is
\* started for every target, whatever the others do.
LaunchAll(ents, pre) == [i \in DOMAIN pre |-> performDelete(ents[i], pre[i])]

\* The snackbar calls of the operations os while they are started in turn.
OpenedByAll(os, pre) ==
    LET f[k \in 0..Len(os)] ==
            IF k = 0 THEN EmptyBag
            ELSE f[k - 1] (+) deleteEntityOpened(os[k].ent, os[k].cb, pre[k])
    IN  f[Len(os)]

otherVars == <<entityOrEntitiesToDelete, lastSupplied, cbVars, save, renderVars, loading, mode, okTarget,
               entityDeleteCalls, multipleDeleteCalls, closeCalls, dismissed>>

\* 3. The store deleted the document: onDelete, if present; its raising is
\*    reported and the delete is a success.
DeleteResolved(i, h) ==
    /\ i \in DOMAIN ops
    /\ ops[i].pc = "store"
    /\ LET failure == IF h = "raised" THEN PostDeleteError ELSE "none"
       IN  ops' = [ops EXCEPT ![i] =
                      Resolve([@ EXCEPT !.store = "ok", !.post = h,
                                        !.onDeleteCalls = @ + 1,
                                        !.hookError = failure], TRUE)]
    /\ notes' = notes (+) Call(ops[i], "onDeleteSuccess", onDeleteSuccess(ops[i].ent))
                      (+) IF h = "raised"
                          THEN Call(ops[i], "onDeleteSuccessHookError",
                                    onDeleteSuccessHookError(ops[i].ent, PostDeleteError))
                          ELSE EmptyBag
    /\ UNCHANGED otherVars

\* 4. The store failed: the failure is reported and onDelete is not invoked.
DeleteRejected(i) ==
    /\ i \in DOMAIN ops
    /\ ops[i].pc = "store"
    /\ ops' = [ops EXCEPT ![i] =
                  Resolve([@ EXCEPT !.store = "failed", !.error = StoreError], FALSE)]
    /\ notes' = notes (+) Call(ops[i], "onDeleteFailure",
                               onDeleteFailure(ops[i].ent, StoreError))
    /\ UNCHANGED otherVars

---------------------------------------------------------------------------
(* The save operation (specification 4.2, save operation).  No source of   *)
(* it is at hand beside the hooks' declarations in EntitySchema:           *)
(* onPreSave, onSaveSuccess and onSaveFailure may each return a promise,   *)
(* so each of them, like the store call, is a step of its own.             *)

PreSaveError == "pre-save hook error"
ValidationError == "id not among the allowed values"
PostSaveSuccessError == "post-save-success hook error"
PostSaveFailureError == "post-save-failure hook error"

\* customId: unset (the store assigns an id), true (the caller's id is
\* used), or an enumerated set of allowed ids.
IdPolicies == {"auto", "user", "enum"}
AllowedIds == {"a", "b"}
\* The id a caller supplies, if any.
SaveIds == {"none", "a", "c"}
\* What onPreSave can do; returning replaces the values.
PreSaveResults == {"absent", "returned", "raised"}

NoSave ==
    [pc |-> "idle", id |-> "none", policy |-> "auto", values |-> "none",
     pre |-> "none", store |-> "none", post |-> "none",
     storeCalls |-> 0, written |-> "none", settled |-> 0, result |-> FALSE,
     error |-> "none", hookError |-> "none"]

\* As ValidId, with every identifier accepted.
ValidIdAny(policy, id) == TRUE

\* The identifier policy, checked before the store is invoked.
ValidId(policy, id) == policy = "enum" => id \in AllowedIds

\* performSave(schema, collectionPath, id?, values, status, context)
performSave(id, policy) ==
    /\ save.pc = "idle"
    /\ save' = [NoSave EXCEPT !.pc = "pre", !.id = id, !.policy = policy,
                              !.values = "values"]
    /\ UNCHANGED <<entityOrEntitiesToDelete, lastSupplied, cbVars, renderVars, loading, mode,
                   okTarget, ops, logVars>>

\* As PreSave, with a raising onPreSave logged and the save carried on with
\* the values it was given.
PreSaveSwallowsRaise(h) ==
    /\ save.pc = "pre"
    /\ LET s == [save EXCEPT !.pre = h,
                             !.values = IF h = "returned" THEN "transformed" ELSE @,
                             !.hookError = IF h = "raised" THEN PreSaveError ELSE @]
       IN  save' =
             IF ~ValidId(s.policy, s.id)
             THEN Resolve([s EXCEPT !.error = ValidationError], FALSE)
             ELSE [s EXCEPT !.pc = "store", !.store = "pending",
                            !.storeCalls = @ + 1]
    /\ UNCHANGED <<entityOrEntitiesToDelete, lastSupplied, cbVars, renderVars, loading, mode,
                   okTarget, ops, logVars>>

\* 1. onPreSave, if present: its return value replaces the values, its
\*    raising aborts the save.  2. The id is validated, then the store is
\*    called with the values.
PreSave(h) ==
    /\ save.pc = "pre"
    /\ LET v == IF h = "returned" THEN "transformed" ELSE save.values
           s == [save EXCEPT !.pre = h, !.values = v]
       IN  save' =
             IF h = "raised"
             THEN Resolve([s EXCEPT !.error = PreSaveError], FALSE)
             ELSE IF ~ValidId(s.policy, s.id)
                  THEN Resolve([s EXCEPT !.error = ValidationError], FALSE)
                  ELSE [s EXCEPT !.pc = "store", !.store = "pending",
                                 !.storeCalls = @ + 1]
    /\ UNCHANGED <<entityOrEntitiesToDelete, lastSupplied, cbVars, renderVars, loading, mode,
                   okTarget, ops, logVars>>

\* The store wrote the entity.
SaveResolved ==
    /\ save.pc = "store"
    /\ save' = [save EXCEPT !.pc = "success", !.store = "ok",
                            !.written = save.values]
    /\ UNCHANGED <<entityOrEntitiesToDelete, lastSupplied, cbVars, renderVars, loading, mode,
                   okTarget, ops, logVars>>

\* The store failed.
SaveRejected ==
    /\ save.pc = "store"
    /\ save' = [save EXCEPT !.pc = "failure", !.store = "failed"]
    /\ UNCHANGED <<entityOrEntitiesToDelete, lastSupplied, cbVars, renderVars, loading, mode,
                   okTarget, ops, logVars>>

\* 3. onSaveSuccess, if present: its raising is reported beside the
\*    verdict, which stays success.
PostSaveSuccess(h) ==
    /\ save.pc = "success"
    /\ save' = Resolve([save EXCEPT !.post = h,
                           !.hookError = IF h = "raised" THEN PostSaveSuccessError
                                         ELSE "none"], TRUE)
    /\ UNCHANGED <<entityOrEntitiesToDelete, lastSupplied, cbVars, renderVars, loading, mode,
                   okTarget, ops, logVars>>

\* 4. onSaveFailure, if present: the save is a failure with the store's
\*    error whether or not the hook itself fails.
PostSaveFailure(h) ==
    /\ save.pc = "failure"
    /\ save' = Resolve([save EXCEPT !.post = h, !.error = StoreError,
                           !.hookError = IF h = "raised" THEN PostSaveFailureError
                                         ELSE "none"], FALSE)
    /\ UNCHANGED <<entityOrEntitiesToDelete, lastSupplied, cbVars, renderVars, loading, mode,
                   okTarget, ops, logVars>>

\* The caller has taken the outcome; another save may be started.
SaveReturned ==
    /\ save.pc = "done"
    /\ save' = NoSave
    /\ UNCHANGED <<entityOrEntitiesToDelete, lastSupplied, cbVars, renderVars, loading, mode,
                   okTarget, ops, logVars>>

---------------------------------------------------------------------------
(* The dialog's handlers.                                                  *)

\* Array.prototype.every(Boolean) / some(Boolean)
Every(results) == \A i \in DOMAIN results : results[i]
Some(results) == \E i \in DOMAIN results : results[i]

\* The results Promise.all hands to its then-callback, in the order of the array.
Results(os) == [i \in DOMAIN os |-> os[i].result]

\* As PromiseAll, resolving with the first promise that resolves (a race).
PromiseRace(os) == os = <<>> \/ \E i \in DOMAIN os : os[i].pc = "done"

\* Promise.all resolves when each of its promises has resolved.
PromiseAll(os) == \A i \in DOMAIN os : os[i].pc = "done"

\* As BatchNote, with the some() test ahead of the every() test.
BatchNoteSomeFirst(results) ==
    IF Some(results)
    THEN Note("warning", "", "Some of the entities have been deleted, but not all")
    ELSE IF Every(results) THEN Note("success", "", "multiple deleted")
         ELSE Note("error", "", "Error deleting entities")

\* The aggregate notification of a batch.
BatchNote(results) ==
    IF Every(results) THEN Note("success", "", "multiple deleted")
    ELSE IF Some(results)
         THEN Note("warning", "", "Some of the entities have been deleted, but not all")
         ELSE Note("error", "", "Error deleting entities")

\* The entities handed to onMultipleEntitiesDelete.
BatchCallbackArg(target, results) == target.ents

\* Whether the batch's then-callback calls onMultipleEntitiesDelete.
BatchCallbackCalled(supplied, target, results) == supplied /\ Defined(target)

SingleNote == Note("success", "", "deleted")

\* As SingleSucceeded, with the test negated.
SingleSucceededNegated(success) == ~success

\* Whether the single delete's then-callback takes its success branch.
SingleSucceeded(success) == success

\* As ActionsRendered, with the buttons rendered whatever the flag.
ActionsRenderedAlways(isLoading) == TRUE

\* {!loading && <DialogActions>}: Cancel and Ok are rendered while not loading.
ActionsRendered(isLoading) == ~isLoading

\* Cancel button.
handleCancel ==
    /\ ActionsRendered(loading)
    /\ dismissed' = TRUE
    /\ UNCHANGED <<entityOrEntitiesToDelete, lastSupplied, cbVars, save, renderVars, loading, mode,
                   okTarget, ops, notes, entityDeleteCalls,
                   multipleDeleteCalls, closeCalls>>

\* As onBackdropClick, with the deletes still in flight abandoned: their
\* store calls are never answered.
onBackdropClickCancels ==
    /\ dismissed' = TRUE
    /\ ops' = [i \in DOMAIN ops |->
                 IF ops[i].pc = "store" THEN [ops[i] EXCEPT !.pc = "cancelled"]
                 ELSE ops[i]]
    /\ UNCHANGED <<entityOrEntitiesToDelete, lastSupplied, cbVars, save, renderVars, loading, mode,
                   okTarget, notes, entityDeleteCalls,
                   multipleDeleteCalls, closeCalls>>

\* onBackdropClick={onClose}: available also while loading.
onBackdropClick ==
    /\ dismissed' = TRUE
    /\ UNCHANGED <<entityOrEntitiesToDelete, lastSupplied, cbVars, save, renderVars, loading, mode,
                   okTarget, ops, notes, entityDeleteCalls,
                   multipleDeleteCalls, closeCalls>>

\* Ok button.  With no target handleOk does
\* nothing.  pre: what onPreDelete does for each target.  A target whose
\* shape disagrees with the flag makes the call throw after
\* setLoading(true), and no completion handler is installed.
handleOk(pre) ==
    /\ ActionsRendered(loading)
    /\ Defined(entityOrEntities)
    /\ DOMAIN pre = DOMAIN entityOrEntities.ents
    /\ loading' = TRUE
    /\ ReRender
    /\ okTarget' = entityOrEntities
    /\ IF Truthy(renderMultiple) = IsArray(entityOrEntities)
       THEN /\ mode' = IF Truthy(renderMultiple) THEN "batch" ELSE "single"
            /\ ops' = LaunchAll(entityOrEntities.ents, pre)
            /\ notes' = OpenedByAll(ops', pre)
       ELSE /\ mode' = "crashed"
            /\ ops' = <<>>
            /\ notes' = EmptyBag
    /\ entityDeleteCalls' = <<>>
    /\ multipleDeleteCalls' = <<>>
    /\ closeCalls' = 0
    /\ dismissed' = FALSE
    /\ UNCHANGED <<entityOrEntitiesToDelete, lastSupplied, cbVars, save>>

\* Promise.all(...).then((results) => ...)
BatchThen ==
    /\ mode = "batch"
    /\ PromiseAll(ops)
    /\ loading' = FALSE
    /\ ReRender
    /\ multipleDeleteCalls' =
          IF BatchCallbackCalled(onMultipleEntitiesDelete, okTarget, Results(ops))
          THEN Append(multipleDeleteCalls, BatchCallbackArg(okTarget, Results(ops)))
          ELSE multipleDeleteCalls
    /\ notes' = notes (+) Opened(BatchNote(Results(ops)))
    /\ closeCalls' = closeCalls + 1
    /\ mode' = "batchDone"
    /\ UNCHANGED <<entityOrEntitiesToDelete, lastSupplied, cbVars, save, okTarget, ops,
                   entityDeleteCalls, dismissed>>

\* As SingleThen, with setLoading(false) inside the success branch.
SingleThenResetOnSuccess ==
    /\ mode = "single"
    /\ PromiseAll(ops)
    /\ loading' = IF SingleSucceeded(Results(ops)[1]) THEN FALSE ELSE loading
    /\ ReRender
    /\ IF SingleSucceeded(Results(ops)[1])
       THEN /\ entityDeleteCalls' =
                  IF onEntityDelete /\ Defined(okTarget)
                  THEN Append(entityDeleteCalls, okTarget.ents[1])
                  ELSE entityDeleteCalls
            /\ notes' = notes (+) Opened(SingleNote)
            /\ closeCalls' = closeCalls + 1
       ELSE UNCHANGED <<entityDeleteCalls, notes, closeCalls>>
    /\ mode' = "singleDone"
    /\ UNCHANGED <<entityOrEntitiesToDelete, lastSupplied, cbVars, save, okTarget, ops,
                   multipleDeleteCalls, dismissed>>

\* performDelete(entityOrEntities).then((success) => ...)
SingleThen ==
    /\ mode = "single"
    /\ PromiseAll(ops)
    /\ loading' = FALSE
    /\ ReRender
    /\ IF SingleSucceeded(Results(ops)[1])
       THEN /\ entityDeleteCalls' =
                  IF onEntityDelete /\ Defined(okTarget)
                  THEN Append(entityDeleteCalls, okTarget.ents[1])
                  ELSE entityDeleteCalls
            /\ notes' = notes (+) Opened(SingleNote)
            /\ closeCalls' = closeCalls + 1
       ELSE UNCHANGED <<entityDeleteCalls, notes, closeCalls>>
    /\ mode' = "singleDone"
    /\ UNCHANGED <<entityOrEntitiesToDelete, lastSupplied, cbVars, save, okTarget, ops,
                   multipleDeleteCalls, dismissed>>

\* The parent renders the dialog with the prop t (and any value of open;
\* the user's events below are those of an open dialog).
Render(t) ==
    /\ entityOrEntitiesToDelete' = t
    /\ lastSupplied' = IF Defined(t) THEN t ELSE lastSupplied
    /\ LET c == Commit(t, t # entityOrEntitiesToDelete,
                       entityOrEntitiesRef, multipleEntities)
       IN  /\ entityOrEntitiesRef' = c.ref
           /\ multipleEntities' = c.multipleEntities
           /\ entityOrEntities' = c.entityOrEntities
           /\ renderMultiple' = c.renderMultiple
    /\ UNCHANGED <<cbVars, save, loading, mode, okTarget, ops, logVars>>

---------------------------------------------------------------------------
\* The dialog as mounted: the first render reads an empty ref and an
\* undefined flag, then the effect runs for the initial prop.
Init ==
    /\ entityOrEntitiesToDelete \in PropValues
    /\ lastSupplied = entityOrEntitiesToDelete
    /\ onEntityDelete \in BOOLEAN
    /\ onMultipleEntitiesDelete \in BOOLEAN
    /\ loading = FALSE
    /\ LET c == Commit(entityOrEntitiesToDelete, TRUE, Undef, "undefined")
       IN  /\ entityOrEntitiesRef = c.ref
           /\ multipleEntities = c.multipleEntities
           /\ entityOrEntities = c.entityOrEntities
           /\ renderMultiple = c.renderMultiple
    /\ mode = "idle"
    /\ okTarget = Undef
    /\ ops = <<>>
    /\ notes = EmptyBag
    /\ entityDeleteCalls = <<>>
    /\ multipleDeleteCalls = <<>>
    /\ closeCalls = 0
    /\ dismissed = FALSE
    /\ save = NoSave

Next ==
    \/ \E t \in PropValues : Render(t)
    \/ handleCancel
    \/ onBackdropClick
    \/ \E n \in 0..NumEnt : \E pre \in [1..n -> HookResults] : handleOk(pre)
    \/ \E i \in 1..NumEnt, h \in HookResults : DeleteResolved(i, h)
    \/ \E i \in 1..NumEnt : DeleteRejected(i)
    \/ BatchThen
    \/ SingleThen

\* The dialog, its deletes and the parent's renders.
Spec == Init /\ [][Next]_vars

\* The single-entity executor: the dialog mounted on one entity (the parent
\* does not render it again) beside a save operation.
ExecutorInit == Init /\ entityOrEntitiesToDelete \in {One(1), One(NumEnt)}

ExecutorNext ==
    \/ handleCancel
    \/ onBackdropClick
    \/ \E pre \in [1..1 -> HookResults] : handleOk(pre)
    \/ \E h \in HookResults : DeleteResolved(1, h)
    \/ DeleteRejected(1)
    \/ SingleThen
    \/ \E id \in SaveIds, policy \in IdPolicies : performSave(id, policy)
    \/ \E h \in PreSaveResults : PreSave(h)
    \/ SaveResolved
    \/ SaveRejected
    \/ \E h \in HookResults : PostSaveSuccess(h)
    \/ \E h \in HookResults : PostSaveFailure(h)
    \/ SaveReturned

ExecutorSpec == ExecutorInit /\ [][ExecutorNext]_vars

\* Every store call is answered and every then-callback whose promise has
\* settled is run by the event loop.
Completion ==
    /\ \A i \in 1..NumEnt :
          WF_vars((\E h \in HookResults : DeleteResolved(i, h)) \/ DeleteRejected(i))
    /\ WF_vars(BatchThen)
    /\ WF_vars(SingleThen)

\* The dialog mounted with both of the parent's callbacks.
FairInit == Init /\ onEntityDelete /\ onMultipleEntitiesDelete

\* The dialog when every launched delete completes.
FairSpec == FairInit /\ [][Next]_vars /\ Completion

---------------------------------------------------------------------------
(* Properties of a batch delete.                                           *)

\* The notifications opened so far that describe a batch as a whole (the
\* per-target ones carry a title).
Aggregates == {n \in BagToSet(notes) : n.title = "" /\ n # SingleNote}
AggregateOfType(type) == \E n \in Aggregates : n.type = type

\* How many targets of the confirmation succeeded.
Successes == Cardinality({i \in DOMAIN ops : ops[i].settled = 1 /\ ops[i].result})

\* The targets whose delete succeeded, in the order of the array.
SucceededTargets ==
    LET f[k \in 0..Len(ops)] ==
            IF k = 0 THEN <<>>
            ELSE IF ops[k].result THEN Append(f[k - 1], ops[k].ent) ELSE f[k - 1]
    IN  f[Len(ops)]

\* C1: a completed batch of N >= 2 targets is reported as all-succeeded
\* (success) iff all N succeeded, as all-failed (error) iff none did, and
\* as partial (warning) iff 0 < k < N did.
C1_BatchClassification ==
    (mode = "batchDone" /\ Len(ops) >= 2) =>
        /\ AggregateOfType("success") <=> Successes = Len(ops)
        /\ AggregateOfType("error") <=> Successes = 0
        /\ AggregateOfType("warning") <=> (0 < Successes /\ Successes < Len(ops))

C1_Witness ==
    /\ mode = "batchDone"
    /\ Len(ops) = NumEnt
    /\ 0 < Successes /\ Successes < Len(ops)
    /\ AggregateOfType("warning")

\* C2: the batch-completion callback receives exactly the targets whose
\* delete succeeded, in their original order (so never the full requested
\* set when the batch is partial).
C2_CallbackGetsSucceeded ==
    (mode = "batchDone" /\ Successes > 0) =>
        \A c \in DOMAIN multipleDeleteCalls :
            multipleDeleteCalls[c] = SucceededTargets

\* C3: in a batch where every per-target delete failed, the
\* batch-completion callback is not invoked.
C3_NoCallbackWhenAllFailed ==
    (mode = "batchDone" /\ Len(ops) >= 1 /\ Successes = 0) =>
        multipleDeleteCalls = <<>>

\* C4: while any target of a batch is still in flight nothing of the
\* aggregate has been surfaced by the batch: loading is still set, the
\* batch-completion callback has not run, no aggregate notification is
\* open and the completion handler has not called onClose.
C4_BatchIsJoin ==
    (mode \in {"batch", "batchDone"} /\ \E i \in DOMAIN ops : ops[i].settled = 0) =>
        /\ mode = "batch"
        /\ loading
        /\ multipleDeleteCalls = <<>>
        /\ Aggregates = {}
        /\ closeCalls = 0

C4_Witness ==
    /\ mode = "batch"
    /\ \E i, j \in DOMAIN ops :
          /\ ops[i].settled = 1 /\ ops[i].result
          /\ ops[j].settled = 0 /\ ops[j].store = "pending"

\* C5: a completed batch has opened exactly one notification.
C5_BatchOneNotification ==
    mode = "batchDone" => BagCardinality(notes) = 1

---------------------------------------------------------------------------
(* Properties of one delete operation.                                     *)

\* C6: a completed single-entity delete has opened exactly one
\* notification, whatever its outcome.
C6_SingleOneNotification ==
    mode = "singleDone" => BagCardinality(notes) = 1

C9_StoreFailure ==
    \A i \in DOMAIN ops :
        ops[i].store = "failed" =>
            /\ ops[i].settled = 1 /\ ~ops[i].result
            /\ ops[i].error = StoreError
            /\ ops[i].onDeleteCalls = 0 /\ ops[i].post = "none"
            /\ CopiesIn(Note("error", "Error deleting", StoreError), notes)
                  = Cardinality({j \in DOMAIN ops : ops[j].store = "failed"})

C9_Witness ==
    /\ mode = "batch"
    /\ \E i, j \in DOMAIN ops :
          /\ ops[i].store = "failed"
          /\ ops[j].store = "ok"

---------------------------------------------------------------------------
(* Properties of the single-entity executor (ExecutorSpec).                *)

\* C8: a post-success hook that raises leaves the verdict a success: the
\* operation yields true, the store's mutation stands (one store call,
\* answered ok, nothing written or called after it), the hook's error is
\* reported beside the verdict, and the dialog still calls onEntityDelete
\* and closes.
C8_PostHookKeepsSuccess ==
    /\ \A i \in DOMAIN ops :
          ops[i].post = "raised" =>
              /\ ops[i].settled = 1 /\ ops[i].result
              /\ ops[i].store = "ok" /\ ops[i].storeCalls = 1
              /\ ops[i].error = "none" /\ ops[i].hookError = PostDeleteError
              /\ \E n \in BagToSet(notes) : n.message = PostDeleteError
    /\ (mode = "singleDone" /\ ops[1].post = "raised") =>
          /\ onEntityDelete => entityDeleteCalls = <<okTarget.ents[1]>>
          /\ closeCalls = 1
    /\ (save.store = "ok" /\ save.post = "raised") =>
          /\ save.settled = 1 /\ save.result
          /\ save.storeCalls = 1 /\ save.written = save.values
          /\ save.error = "none" /\ save.hookError = PostSaveSuccessError

C8_Witness ==
    /\ mode = "singleDone"
    /\ ops[1].post = "raised"
    /\ onEntityDelete
    /\ save.pc = "done"
    /\ save.store = "ok" /\ save.post = "raised"

\* A finished operation: it has yielded once, and a failure names its reason.
OneOutcome(op) ==
    /\ op.settled <= 1
    /\ op.pc = "done" <=> op.settled = 1
    /\ op.settled = 0 => (op.error = "none" /\ ~op.result)
    /\ (op.settled = 1 /\ op.result) => op.error = "none"
    /\ (op.settled = 1 /\ ~op.result) =>
          op.error \in {PreDeleteError, PreSaveError, ValidationError, StoreError}

\* C10: a save or delete operation yields at most one outcome, exactly one
\* once it is over, success or failure; a failure carries its reason, and
\* the reason of a failed delete has been reported to the user.  The
\* dialog's completion handler runs on that one outcome.
C10_ExactlyOneOutcome ==
    /\ OneOutcome(save)
    /\ \A i \in DOMAIN ops :
          /\ OneOutcome(ops[i])
          /\ (ops[i].settled = 1 /\ ~ops[i].result) =>
                \E n \in BagToSet(notes) :
                    n.type = "error" /\ n.message = ops[i].error
    /\ mode = "singleDone" => (Len(ops) = 1 /\ ops[1].settled = 1)

C10_Witness ==
    /\ mode = "singleDone"
    /\ ops[1].store = "failed"
    /\ save.pc = "done"
    /\ save.error = ValidationError

---------------------------------------------------------------------------
(* The save executor's aborts.                                             *)

\* C11: a save whose onPreSave hook raised wrote nothing to the store: the
\* store was never called, nothing was written, no post hook (onSaveSuccess,
\* onSaveFailure) ran, and the save settled once, as a failure carrying the
\* pre-save hook error.
C11_PreSaveAborts ==
    save.pre = "raised" =>
        /\ save.pc = "done"
        /\ save.storeCalls = 0
        /\ save.store = "none"
        /\ save.written = "none"
        /\ save.post = "none"
        /\ save.settled = 1
        /\ ~save.result
        /\ save.error = PreSaveError
        /\ save.hookError = "none"

C11_Witness ==
    /\ save.pre = "raised"
    /\ save.pc = "done"
    /\ ValidId(save.policy, save.id)

---------------------------------------------------------------------------
(* The batch's operations beside each other.                               *)

\* The operation of one target was attempted and, once settled, yields what
\* its own hooks and its own store call made of it.
OwnOutcome(op) ==
    /\ op.pre = "raised" => op.storeCalls = 0 /\ op.settled = 1
    /\ op.pre # "raised" => op.storeCalls = 1
    /\ op.settled = 1 =>
          /\ op.result <=> (op.pre # "raised" /\ op.store = "ok")
          /\ op.error = (IF op.pre = "raised" THEN PreDeleteError
                         ELSE IF op.store = "failed" THEN StoreError
                         ELSE "none")

\* C13: a confirmed batch has one delete operation per target of the array,
\* in the array's order; every target whose own onPreDelete did not raise
\* has had its store delete called, whatever happened to the others; a
\* settled operation's outcome is the one its own hooks and store call
\* give; and a step of one operation leaves every other operation as it was.
C13_BatchIndependent ==
    /\ [](mode \in {"batch", "batchDone"} =>
            /\ Len(ops) = Len(okTarget.ents)
            /\ \A i \in DOMAIN ops :
                  /\ ops[i].ent = okTarget.ents[i]
                  /\ OwnOutcome(ops[i]))
    /\ [][(mode = "batch" /\ mode' = "batch") =>
            /\ DOMAIN ops' = DOMAIN ops
            /\ Cardinality({i \in DOMAIN ops : ops'[i] # ops[i]}) <= 1
            /\ \A i \in DOMAIN ops : ops[i].settled = 1 => ops'[i] = ops[i]]_vars

\* A batch in which the first target's onPreDelete raised, the second's
\* store delete failed and the third's delete succeeded.
C13_Witness ==
    /\ mode = "batchDone"
    /\ Len(ops) = NumEnt
    /\ ops[1].pre = "raised"
    /\ ops[2].store = "failed"
    /\ ops[NumEnt].settled = 1 /\ ops[NumEnt].result

---------------------------------------------------------------------------
(* Confirmations from the click to the end.                                *)

\* The delete of one target has run to its end and its failure, if any, was
\* notified through the dialog's callback.
OutcomeReported(op) ==
    /\ op.pc = "done" /\ op.settled = 1
    /\ op.pre = "raised" <=> op.storeCalls = 0
    /\ op.pre = "raised" =>
          BagIn(Note("error", "Error before deleting", PreDeleteError), notes)
    /\ op.pre # "raised" => op.store \in {"ok", "failed"}
    /\ op.store = "failed" =>
          BagIn(Note("error", "Error deleting", StoreError), notes)
    /\ op.result <=> op.store = "ok"

\* The confirmation's then-callback has run on the outcomes of all targets.
ConfirmationReported ==
    /\ mode \in {"batchDone", "singleDone"}
    /\ ~loading
    /\ \A i \in DOMAIN ops : OutcomeReported(ops[i])
    /\ mode = "batchDone" => Aggregates # {} /\ closeCalls = 1
    /\ (mode = "singleDone" /\ ops[1].result) => BagIn(SingleNote, notes)

\* C14: dismissing the dialog while deletes are in flight does not stop
\* them: the dismissing step leaves every operation and the loading flag as
\* they were, and from a state in which the dialog was dismissed while
\* loading, every operation runs to its end, its outcome is notified and the
\* confirmation's then-callback runs, provided every store call is answered.
C14_DismissalDoesNotCancel ==
    /\ [][(loading /\ ~dismissed /\ dismissed') =>
            (ops' = ops /\ loading' /\ mode' = mode)]_vars
    /\ (loading /\ dismissed) ~> (dismissed /\ ConfirmationReported)

\* The dialog dismissed while a store delete is unanswered.
C14_Witness ==
    /\ loading /\ dismissed
    /\ \E i \in DOMAIN ops : ops[i].pc = "store" /\ ops[i].storeCalls = 1

\* C17: once Ok was pressed on a target (loading is true), loading is false
\* again at some later point, for a single delete and for a batch and for
\* every combination of outcomes, provided every launched delete completes.
C17_LoadingEnds == loading ~> ~loading

\* A batch in flight with some deletes settled and one still unanswered.
C17_Witness ==
    /\ loading
    /\ mode = "batch"
    /\ \E i, j \in DOMAIN ops :
          /\ ops[i].settled = 1 /\ ~ops[i].result
          /\ ops[j].pc = "store"

---------------------------------------------------------------------------
(* The target a confirmation works on.                                     *)

\* C15: when Ok is pressed (the step that sets loading), the entities handed
\* to the delete operations are exactly those of the most recently supplied
\* non-empty entityOrEntitiesToDelete prop, after any sequence of prop
\* changes.
C15_DeletesLatestTarget ==
    [][(~loading /\ loading') =>
          /\ okTarget'.ents = lastSupplied.ents
          /\ [i \in DOMAIN ops' |-> ops'[i].ent] = lastSupplied.ents]_vars

\* C16: at most one confirmation is in flight.  An unanswered delete exists
\* only while loading, under the one single or batch confirmation that
\* started it; no target has two operations nor an operation two store
\* calls; and while loading no step starts operations again: the target,
\* the operations' entities and their store calls stay, and no settled
\* operation is back in flight.
C16_OneConfirmationInFlight ==
    /\ []((\E i \in DOMAIN ops : ops[i].pc = "store") =>
            (loading /\ mode \in {"single", "batch"}))
    /\ [](/\ Len(ops) = (IF mode = "idle" THEN 0 ELSE Len(okTarget.ents))
          /\ \A i \in DOMAIN ops :
                /\ ops[i].storeCalls <= 1
                /\ \A j \in DOMAIN ops : ops[i].ent = ops[j].ent => i = j)
    /\ [][loading =>
            /\ okTarget' = okTarget
            /\ DOMAIN ops' = DOMAIN ops
            /\ \A i \in DOMAIN ops :
                  /\ ops'[i].ent = ops[i].ent
                  /\ ops'[i].storeCalls = ops[i].storeCalls
                  /\ ops'[i].settled >= ops[i].settled]_vars

\* A single delete in flight: the store call is unanswered and the buttons
\* are not rendered.
C16_Witness ==
    /\ loading
    /\ mode = "single"
    /\ ops[1].pc = "store"
    /\ ~ActionsRendered(loading)

---------------------------------------------------------------------------
(* The single path.                                                        *)

\* C18: when the single delete has failed, its then-callback resets loading
\* and does nothing else: onClose is not called, onEntityDelete is not
\* called and no success notification is opened; along the single path
\* onEntityDelete and onClose are called only once the delete has succeeded.
C18_SingleFailureKeepsOpen ==
    /\ mode = "singleDone" => ~loading
    /\ (mode = "singleDone" /\ ~ops[1].result) =>
          /\ closeCalls = 0
          /\ entityDeleteCalls = <<>>
          /\ \A n \in BagToSet(notes) : n.type # "success"
    /\ (mode \in {"single", "singleDone"}
          /\ (closeCalls > 0 \/ entityDeleteCalls # <<>>)) =>
          /\ mode = "singleDone"
          /\ ops[1].result /\ ops[1].store = "ok"
          /\ closeCalls = 1
          /\ BagIn(SingleNote, notes)

\* A single delete whose store call failed, after its then-callback, with
\* onEntityDelete supplied.
C18_Witness ==
    /\ mode = "singleDone"
    /\ ops[1].store = "failed"
    /\ onEntityDelete
    /\ ~loading

\* C19: when Ok is pressed and the latest non-empty prop is an array of
\* exactly one entity, the single path is taken with one delete operation;
\* when it is an array of any other length, the batch path is taken.  The
\* single path never calls onMultipleEntitiesDelete nor opens an aggregate
\* notification, and calls onEntityDelete (when supplied) with the target on
\* success; the batch path never calls onEntityDelete.
C19_OneElementArrayIsSingle ==
    /\ [][(~loading /\ loading' /\ IsArray(lastSupplied)) =>
            IF Len(lastSupplied.ents) = 1
            THEN mode' = "single" /\ Len(ops') = 1 /\ ~IsArray(okTarget')
            ELSE mode' = "batch" /\ IsArray(okTarget')]_vars
    /\ [](mode \in {"single", "singleDone"} =>
            /\ Len(ops) = 1
            /\ multipleDeleteCalls = <<>>
            /\ Aggregates = {}
            /\ (mode = "singleDone" /\ ops[1].result /\ onEntityDelete) =>
                  entityDeleteCalls = <<okTarget.ents[1]>>)
    /\ [](mode \in {"batch", "batchDone"} =>
            /\ Len(okTarget.ents) # 1
            /\ entityDeleteCalls = <<>>)

\* An array of one entity, confirmed and deleted along the single path.
C19_Witness ==
    /\ entityOrEntitiesToDelete = Arr(Asc(1))
    /\ okTarget = One(1)
    /\ mode = "singleDone"
    /\ ops[1].result
    /\ entityDeleteCalls = <<1>>
    /\ onMultipleEntitiesDelete

---------------------------------------------------------------------------
(* The flag and the target of a render.                                    *)

\* C20: in every state in which Ok can be pressed (the buttons are
\* rendered), the multipleEntities flag of that render is true iff the
\* target the render holds is an array, and with a target held the flag is
\* not undefined; so handleOk never maps over a single entity nor hands an
\* array to a single delete.
C20_FlagAgreesWithTarget ==
    /\ ActionsRendered(loading) =>
          /\ Truthy(renderMultiple) <=> IsArray(entityOrEntities)
          /\ Defined(entityOrEntities) => renderMultiple \in {"true", "false"}
    /\ mode # "crashed"
    /\ mode \in {"single", "singleDone"} => ~IsArray(okTarget)
    /\ mode \in {"batch", "batchDone"} => IsArray(okTarget)

\* Ok can be pressed in a render that still holds the target of before the
\* last prop change, the new target being an array of one entity.
C20_Witness ==
    /\ ActionsRendered(loading)
    /\ entityOrEntitiesToDelete = Arr(Asc(1))
    /\ entityOrEntitiesRef = One(1)
    /\ entityOrEntities = One(NumEnt)
    /\ renderMultiple = "false"

====
